---------------------------- MODULE Spec2Model ----------------------------
(***************************************************************************)
(* A model of scripts/resume.py of slurm-gcp: main() classifies the        *)
(* requested nodes by pid, optionally creates placement groups, splits     *)
(* every pid group into chunks and hands the chunks to a thread pool whose *)
(* workers run add_instances (create_instance, wait_for_operation and, on  *)
(* any exception, down_nodes).                                             *)
(*                                                                         *)
(* A node name is the pair <<pid, ordinal>>; util.get_pid reads the pid    *)
(* out of the name.  The cloud provider and scontrol are the environment:  *)
(* every call to them either returns or raises, chosen nondeterministically*)
(***************************************************************************)
EXTENDS Integers, Sequences, FiniteSets, TLC

(***************************************************************************)
(* Program constants.                                                      *)
(***************************************************************************)
PLACEMENT_MAX_CNT == 22

MaxChunkNodes == 1000

(***************************************************************************)
(* Bounds of the model.                                                    *)
(***************************************************************************)
\* threads of the ThreadPoolExecutor (its default depends on the machine)
PoolSize == 2

\* a "small" pid group has 0..MaxSmall nodes
MaxSmall == 2

\* the pids of the cluster, in increasing order
Pids == {1, 2}

REASON == "resume.py failed, see resume.log"

VARIABLES
    hostnames,        \* output of "scontrol show hostnames", split into lines
    arg_job_id,       \* 0 when no job id was given (job_id = 0, line 347)
    instance_defs,    \* cfg.instance_defs: pid -> instance definition
    pc,               \* where main() is
    nodes_by_pid,     \* the ordered dict of line 297, as <<pid, nodes>> pairs
    placement_groups, \* line 291/311; None is the empty sequence
    pg_i,             \* create_placement_groups: loop variable i of line 256
    pg_names,         \* create_placement_groups: pg_names
    pg_ops,           \* create_placement_groups: pg_ops
    pg_waited,        \* number of pg_ops wait_for_operation has returned for
    policies,         \* provider: resource policies created, in order
    work,             \* executor: one record per submitted add_instances call
    down              \* scheduler: nodes set down, with the reason

vars == <<hostnames, arg_job_id, instance_defs, pc, nodes_by_pid,
          placement_groups, pg_i, pg_names, pg_ops, pg_waited, policies,
          work, down>>

mainVars == <<pc, nodes_by_pid, placement_groups, pg_i, pg_names, pg_ops,
              pg_waited, policies>>

inputVars == <<hostnames, arg_job_id, instance_defs>>

(***************************************************************************)
(* Helpers on sequences.                                                   *)
(***************************************************************************)
Min(a, b) == IF a <= b THEN a ELSE b

Range(s) == {s[i] : i \in 1..Len(s)}

RECURSIVE Flatten(_)
Flatten(ss) == IF ss = <<>> THEN <<>> ELSE Head(ss) \o Flatten(Tail(ss))

Reverse(s) == [i \in 1..Len(s) |-> s[Len(s) + 1 - i]]

\* the elements at odd positions followed by those at even positions
Unshuffle(s) ==
    LET n == Len(s)
        odd == (n + 1) \div 2
    IN  [i \in 1..n |-> IF i <= odd THEN s[2 * i - 1] ELSE s[2 * (i - odd)]]

(***************************************************************************)
(* util.get_pid: the pid a node name carries.                              *)
(***************************************************************************)
get_pid(node) == node[1]

None == <<>>

\* Python truthiness of a list-or-None
Truthy(lst) == lst # None /\ Len(lst) > 0

(***************************************************************************)
(* sorted(lst, key=util.get_pid): a stable sort, so the result is the      *)
(* nodes of the least pid in their input order, then those of the next.    *)
(***************************************************************************)
RECURSIVE SortKeys(_, _)
SortKeys(lst, ks) ==
    IF ks = {} THEN <<>>
    ELSE LET p == CHOOSE k \in ks : \A k2 \in ks : k <= k2
         IN  SelectSeq(lst, LAMBDA x : get_pid(x) = p) \o SortKeys(lst, ks \ {p})

sorted_by_pid(lst) == SortKeys(lst, {get_pid(lst[i]) : i \in 1..Len(lst)})

(***************************************************************************)
(* {k: tuple(nodes) for k, nodes in groupby(node_list, util.get_pid)}:     *)
(* groupby yields one group per maximal run of equal keys; the dict keeps  *)
(* a key at the position of its first run and the value of its last run.   *)
(***************************************************************************)
KeysOf(lst) == {get_pid(lst[i]) : i \in 1..Len(lst)}

FirstPos(lst, k) ==
    CHOOSE i \in 1..Len(lst) :
        get_pid(lst[i]) = k /\ \A j \in 1..(i - 1) : get_pid(lst[j]) # k

LastRun(lst, k) ==
    LET n == Len(lst)
        last == CHOOSE i \in 1..n :
                    get_pid(lst[i]) = k /\ \A j \in (i + 1)..n : get_pid(lst[j]) # k
        start == CHOOSE i \in 1..last : \A j \in i..last : get_pid(lst[j]) = k
    IN  SubSeq(lst, start, last)

groupby_dict(lst) ==
    LET ks == KeysOf(lst)
        key(r) == CHOOSE k \in ks :
                      Cardinality({k2 \in ks : FirstPos(lst, k2) < FirstPos(lst, k)}) = r - 1
    IN  [r \in 1..Cardinality(ks) |-> <<key(r), LastRun(lst, key(r))>>]

\* mutant: no pid is deleted
drop_nothing(d, defs) == d

\* line 300-304: del nodes_by_pid[pid] for every exclusive pid
drop_exclusive(d, defs) == SelectSeq(d, LAMBDA kv : ~defs[kv[1]].exclusive)

\* mutant: the test of line 293 without its "not"
is_prolog_call_inverted(job, defs, pid) == job # 0 /\ defs[pid].exclusive

\* line 293: a call by PrologSlurmctld for nodes that are not exclusive
is_prolog_call(job, defs, pid) == job # 0 /\ ~defs[pid].exclusive

\* machine_type.split('-')[0]
machine_family(def) == Head(def.machine_type)

\* the condition of lines 306-309
wants_placement(job, defs, pid, node_list) ==
    /\ job # 0
    /\ defs[pid].enable_placement
    /\ machine_family(defs[pid]) = "c2"
    /\ Len(node_list) > 1

(***************************************************************************)
(* create_placement_groups, lines 256-270: the iterations of the loop that *)
(* are not skipped are those with i a multiple of PLACEMENT_MAX_CNT.       *)
(***************************************************************************)
pg_name(job, index) == <<"cluster", job, index>>

\* mutant: every group is created full
pg_vm_count_full(vm_count, i) == PLACEMENT_MAX_CNT

pg_vm_count(vm_count, i) == Min(vm_count - i, PLACEMENT_MAX_CNT)

pg_next_i(i) == i + PLACEMENT_MAX_CNT

(***************************************************************************)
(* chunks(lst, pg_names), lines 315-327.                                   *)
(***************************************************************************)
\* mutant: the size of a bulk request also with placement groups
chunk_size_bulk(names) == MaxChunkNodes

chunk_size(names) == IF Truthy(names) THEN PLACEMENT_MAX_CNT ELSE MaxChunkNodes

\* mutant: the slice lst[i:i+n-1]
chunk_nodes_short(lst, i, n) == SubSeq(lst, i + 1, Min(i + n - 1, Len(lst)))

chunk_nodes(lst, i, n) == SubSeq(lst, i + 1, Min(i + n, Len(lst)))

chunks(lst, names) ==
    LET n == chunk_size(names)
        cnt == (Len(lst) + n - 1) \div n
    IN  [k \in 1..cnt |->
            IF Truthy(names)
            THEN [nodes |-> chunk_nodes(lst, (k - 1) * n, n), pg |-> names[k]]
            ELSE [nodes |-> chunk_nodes(lst, (k - 1) * n, n)]]

\* chain.from_iterable(map(partial(chunks, pg_names=...), nodes_by_pid.values()))
node_chunks ==
    Flatten([r \in 1..Len(nodes_by_pid) |->
                chunks(nodes_by_pid[r][2], placement_groups)])

(***************************************************************************)
(* The inputs.                                                             *)
(***************************************************************************)
Group(p, c) == [i \in 1..c |-> <<p, i>>]

RECURSIVE Blocks(_, _)
Blocks(counts, ps) ==
    IF ps = {} THEN <<>>
    ELSE LET p == CHOOSE k \in ps : \A k2 \in ps : k <= k2
         IN  Group(p, counts[p]) \o Blocks(counts, ps \ {p})

Arrangements(lst) == {lst, Reverse(lst), Unshuffle(lst)}

SmallSizes == 0..MaxSmall

LargeSizes == {PLACEMENT_MAX_CNT, PLACEMENT_MAX_CNT + 1, 2 * PLACEMENT_MAX_CNT + 1}

\* gpu_type is None or the name of an accelerator type
GpuTypes == {None, <<"nvidia", "tesla", "t4">>}

InstanceDefs ==
    [exclusive : BOOLEAN, enable_placement : BOOLEAN,
     machine_type : {<<"c2", "standard", "60">>, <<"n1", "standard", "16">>},
     gpu_type : GpuTypes, preemptible_bursting : BOOLEAN]

\* the definitions with no accelerator and no preemptible bursting
PlainDefs ==
    {d \in InstanceDefs : d.gpu_type = None /\ ~d.preemptible_bursting}

\* Short node lists, with every configuration of the pids they name: each
\* pid has any instance definition, or none.
SmallCounts == {c \in [Pids -> SmallSizes] : \E p \in Pids : c[p] > 0}

SmallInputs ==
    {in \in [nodes : UNION {Arrangements(Blocks(c, Pids)) : c \in SmallCounts},
              job : {0, 1},
              defs : UNION {[known -> PlainDefs] : known \in SUBSET Pids}] :
        DOMAIN in.defs \subseteq KeysOf(in.nodes)}

\* Long node lists: one pid has a large group, the others at most one node,
\* and all the pids share one instance definition.
LargeCounts ==
    {c \in [Pids -> {0, 1} \cup LargeSizes] :
        Cardinality({p \in Pids : c[p] \in LargeSizes}) = 1}

LargeInputs ==
    [nodes : UNION {Arrangements(Blocks(c, Pids)) : c \in LargeCounts},
     job : {0, 1},
     defs : UNION {[Pids -> {d}] : d \in PlainDefs}]

\* Node lists longer than one bulk request, with the two pids interleaved.
\* They come with definitions that enable no placement group (a list of
\* 1001 nodes would take 46).
HugeCounts ==
    {c \in [Pids -> {0, 1, MaxChunkNodes + 1}] :
        Cardinality({p \in Pids : c[p] > MaxChunkNodes}) = 1}

HugeInputs ==
    [nodes : {Unshuffle(Blocks(c, Pids)) : c \in HugeCounts},
     job : {0, 1},
     defs : [Pids -> {d \in PlainDefs : ~d.enable_placement /\ machine_family(d) = "n1"}]]

\* Short node lists of one pid, with the definitions that have an
\* accelerator or preemptible bursting.
SchedulingCounts ==
    {c \in SmallCounts : Cardinality({p \in Pids : c[p] > 0}) = 1}

SchedulingInputs ==
    [nodes : UNION {Arrangements(Blocks(c, Pids)) : c \in SchedulingCounts},
     job : {0, 1},
     defs : UNION {[Pids -> {d}] : d \in InstanceDefs \ PlainDefs}]

Init ==
    /\ \E in \in SmallInputs \cup LargeInputs \cup HugeInputs \cup SchedulingInputs :
        /\ hostnames = in.nodes
        /\ arg_job_id = in.job
        /\ instance_defs = in.defs
    /\ pc = "start"
    /\ nodes_by_pid = <<>>
    /\ placement_groups = None
    /\ pg_i = 0
    /\ pg_names = <<>>
    /\ pg_ops = <<>>
    /\ pg_waited = 0
    /\ policies = <<>>
    /\ work = <<>>
    /\ down = {}

(***************************************************************************)
(* main, lines 285-313 up to the call of create_placement_groups.  The     *)
(* sorted list and the dict are each computed once and bound, as lines 289 *)
(* and 297 assign them.                                                    *)
(***************************************************************************)
Classify ==
    /\ pc = "start"
    /\ \E node_list \in {sorted_by_pid(hostnames)} :
       \E by_pid \in {groupby_dict(node_list)} :
       LET pid == get_pid(node_list[1])
       IN  IF arg_job_id # 0 /\ pid \notin DOMAIN instance_defs
           THEN \* KeyError at line 293
                /\ pc' = "raised"
                /\ UNCHANGED nodes_by_pid
           ELSE IF is_prolog_call(arg_job_id, instance_defs, pid)
           THEN \* line 295
                /\ pc' = "returned"
                /\ UNCHANGED nodes_by_pid
           ELSE IF arg_job_id = 0 /\ \E r \in 1..Len(by_pid) : by_pid[r][1] \notin DOMAIN instance_defs
           THEN \* KeyError at line 302
                /\ pc' = "raised"
                /\ nodes_by_pid' = by_pid
           ELSE /\ nodes_by_pid' = IF arg_job_id = 0
                                   THEN drop_exclusive(by_pid, instance_defs)
                                   ELSE by_pid
                /\ pc' = IF wants_placement(arg_job_id, instance_defs, pid, node_list)
                         THEN "pg_insert" ELSE "fanout"
    /\ UNCHANGED <<placement_groups, pg_i, pg_names, pg_ops, pg_waited, policies>>
    /\ UNCHANGED <<inputVars, work, down>>

(***************************************************************************)
(* create_placement_groups, one step per provider call.  The group index   *)
(* pg_index of line 259 is Len(pg_names).                                  *)
(***************************************************************************)
\* mutant: a failed insert is skipped and the loop goes on
PgInsert_skips_failure ==
    /\ pc = "pg_insert"
    /\ LET vm_count == Len(hostnames)
           name == pg_name(arg_job_id, Len(pg_names) + 1)
           config == [name |-> name, vmCount |-> pg_vm_count(vm_count, pg_i)]
       IN  /\ pg_names' = Append(pg_names, name)
           /\ pg_i' = pg_next_i(pg_i)
           /\ pc' = IF pg_next_i(pg_i) >= vm_count THEN "pg_wait" ELSE "pg_insert"
           /\ \/ /\ policies' = Append(policies, config)
                 /\ pg_ops' = Append(pg_ops, name)
              \/ /\ Len(pg_ops) > 0
                 /\ UNCHANGED <<policies, pg_ops>>
    /\ UNCHANGED <<nodes_by_pid, placement_groups, pg_waited>>
    /\ UNCHANGED <<inputVars, work, down>>

\* lines 256-275: the next iteration that is not skipped, and its insert
PgInsert ==
    /\ pc = "pg_insert"
    /\ LET vm_count == Len(hostnames)
           name == pg_name(arg_job_id, Len(pg_names) + 1)
           config == [name |-> name, vmCount |-> pg_vm_count(vm_count, pg_i)]
       IN  \/ \* the insert returns an operation
              /\ pg_names' = Append(pg_names, name)
              /\ policies' = Append(policies, config)
              /\ pg_ops' = Append(pg_ops, name)
              /\ pg_i' = pg_next_i(pg_i)
              /\ pc' = IF pg_next_i(pg_i) >= vm_count THEN "pg_wait" ELSE "pg_insert"
           \/ \* the insert raises: the exception leaves main
              /\ pg_names' = Append(pg_names, name)
              /\ pc' = "raised"
              /\ UNCHANGED <<policies, pg_ops, pg_i>>
    /\ UNCHANGED <<nodes_by_pid, placement_groups, pg_waited>>
    /\ UNCHANGED <<inputVars, work, down>>

\* mutant: only the first operation is waited for
pg_first_waited(waited, ops) == waited >= 1

\* line 277: the for loop over pg_ops has waited for every operation
pg_all_waited(waited, ops) == waited = Len(ops)

\* lines 277-280 and 311-313: one poll of wait_for_operation that reports DONE
PgPollDone ==
    /\ pc = "pg_wait"
    /\ pg_waited' = pg_waited + 1
    /\ IF pg_all_waited(pg_waited + 1, pg_ops)
       THEN /\ placement_groups' = pg_names
            /\ pc' = "fanout"
       ELSE UNCHANGED <<placement_groups, pc>>
    /\ UNCHANGED <<nodes_by_pid, pg_i, pg_names, pg_ops, policies>>
    /\ UNCHANGED <<inputVars, work, down>>

\* lines 74-78: the status is not DONE, sleep and poll again
PgPollRunning ==
    /\ pc = "pg_wait"
    /\ UNCHANGED vars

\* the status request raises: the exception leaves main
PgPollRaise ==
    /\ pc = "pg_wait"
    /\ pc' = "raised"
    /\ UNCHANGED <<nodes_by_pid, placement_groups, pg_i, pg_names, pg_ops,
                   pg_waited, policies>>
    /\ UNCHANGED <<inputVars, work, down>>

(***************************************************************************)
(* The fan-out, lines 329-333.  exe.map submits one add_instances call per *)
(* chunk, in the order the chunks are generated; the pool's threads take   *)
(* the calls in that order.  A record of work is one such call:            *)
(*   phase  "queued", "wait" (in wait_for_operation), "down" (the except   *)
(*          clause is about to call down_nodes), "done" (returned) or      *)
(*          "raised" (an exception left add_instances into its future)     *)
(*   bulk   number of bulkInsert requests made for the chunk               *)
(*   stuck  the operation of the chunk never reports DONE                  *)
(*   errs   the exceptions raised in the call, in order                    *)
(*   downs  the down_nodes calls made for the chunk                        *)
(*   body   the body of the bulkInsert request built for the chunk         *)
(*   result the result wait_for_operation returned                         *)
(***************************************************************************)
Calls == 1..Len(work)

Running == {c \in Calls : work[c].phase \in {"wait", "down"}}

Finished(c) == work[c].phase \in {"done", "raised"}

\* mutant: a pool of one thread
thread_free_single == Cardinality(Running) < 1

\* the executor starts a call only while fewer than max_workers are running
thread_free == Cardinality(Running) < PoolSize

(***************************************************************************)
(* create_instance, lines 82-195: the body of the bulkInsert request, as   *)
(* far as it depends on the chunk.  A 'scheduling' value is the set of its *)
(* <<key, value>> pairs; the key is absent from config when the set is     *)
(* empty.                                                                  *)
(***************************************************************************)
NoScheduling == {}

\* lines 145-148
PlacementScheduling ==
    {<<"onHostMaintenance", "TERMINATE">>, <<"automaticRestart", "False">>}

\* line 157
AcceleratorScheduling == {<<"onHostMaintenance", "TERMINATE">>}

\* lines 160-164
PreemptibleScheduling ==
    {<<"preemptible", "True">>, <<"onHostMaintenance", "TERMINATE">>,
     <<"automaticRestart", "False">>}

\* mutant: the first branch that applies decides, the later ones are elif
scheduling_first_wins(placement_group_name, instance_def) ==
    IF placement_group_name # None THEN PlacementScheduling
    ELSE IF Truthy(instance_def.gpu_type) THEN AcceleratorScheduling
    ELSE IF instance_def.preemptible_bursting THEN PreemptibleScheduling
    ELSE NoScheduling

\* lines 144-164: three ifs in sequence, each assigning config['scheduling']
scheduling(placement_group_name, instance_def) ==
    LET s1 == IF placement_group_name # None THEN PlacementScheduling ELSE NoScheduling
        s2 == IF Truthy(instance_def.gpu_type) THEN AcceleratorScheduling ELSE s1
        s3 == IF instance_def.preemptible_bursting THEN PreemptibleScheduling ELSE s2
    IN  s3

create_instance(instance_def, node_list, placement_group_name) ==
    [count |-> Len(node_list),
     scheduling |-> scheduling(placement_group_name, instance_def),
     resourcePolicies |-> IF placement_group_name # None
                          THEN <<placement_group_name>> ELSE <<>>,
     guestAccelerators |-> IF Truthy(instance_def.gpu_type)
                           THEN <<instance_def.gpu_type>> ELSE <<>>]

\* no request has been built
NoBody ==
    [count |-> 0, scheduling |-> NoScheduling, resourcePolicies |-> <<>>,
     guestAccelerators |-> <<>>]

(***************************************************************************)
(* wait_for_operation, lines 54-78.  A poll answers with the status of the *)
(* operation and, when the operation failed, with an 'error' member inside *)
(* the result.                                                             *)
(***************************************************************************)
Results == [status : {"PENDING", "RUNNING", "DONE"}, error : BOOLEAN]

\* wait_for_operation has not returned
NoResult == [status |-> "none", error |-> FALSE]

\* mutant: the status is compared with a word the provider never sends
wait_returns_completed(result) == result.status = "COMPLETED"

\* line 74
wait_returns(result) == result.status = "DONE"

Submit ==
    /\ pc = "fanout"
    /\ Len(work) < Len(node_chunks)
    /\ work' = Append(work, [chunk |-> node_chunks[Len(work) + 1],
                             phase |-> "queued", bulk |-> 0, stuck |-> FALSE,
                             errs |-> <<>>, downs |-> <<>>,
                             body |-> NoBody, result |-> NoResult])
    /\ UNCHANGED <<inputVars, mainVars, down>>

\* a free thread takes the oldest queued call and runs add_instances up to
\* and including create_instance, lines 200-219
Create(c) ==
    /\ c \in Calls
    /\ work[c].phase = "queued"
    /\ \A b \in 1..(c - 1) : work[b].phase # "queued"
    /\ thread_free
    /\ LET node_list == work[c].chunk.nodes
           \* lines 201-203
           pg_name_arg == IF "pg" \in DOMAIN work[c].chunk THEN work[c].chunk.pg ELSE None
           pid == get_pid(node_list[1])
       IN  IF pid \notin DOMAIN instance_defs
           THEN \* KeyError at line 216, outside the try
                work' = [work EXCEPT ![c].phase = "raised", ![c].errs = Append(@, "KeyError")]
           ELSE LET body == create_instance(instance_defs[pid], node_list, pg_name_arg)
                IN  \/ \E st \in BOOLEAN :
                          work' = [work EXCEPT ![c].phase = "wait", ![c].bulk = @ + 1,
                                               ![c].stuck = st, ![c].body = body]
                    \/ work' = [work EXCEPT ![c].phase = "down", ![c].bulk = @ + 1,
                                            ![c].errs = Append(@, "create"),
                                            ![c].body = body]
    /\ UNCHANGED <<inputVars, mainVars, down>>

\* mutant: a result with an 'error' member raises in wait_for_operation
PollDone_checks_error(c) ==
    /\ c \in Calls
    /\ work[c].phase = "wait"
    /\ ~work[c].stuck
    /\ \E result \in Results :
        /\ wait_returns(result)
        /\ work' = IF result.error
                   THEN [work EXCEPT ![c].phase = "down", ![c].errs = Append(@, "wait"),
                                     ![c].result = result]
                   ELSE [work EXCEPT ![c].phase = "done", ![c].result = result]
    /\ UNCHANGED <<inputVars, mainVars, down>>

\* wait_for_operation called at line 220: a poll whose result makes it
\* return (lines 74-76), with or without an 'error' member in the result
PollDone(c) ==
    /\ c \in Calls
    /\ work[c].phase = "wait"
    /\ ~work[c].stuck
    /\ \E result \in Results :
        /\ wait_returns(result)
        /\ work' = [work EXCEPT ![c].phase = "done", ![c].result = result]
    /\ UNCHANGED <<inputVars, mainVars, down>>

\* a poll whose result makes it sleep and poll again, line 78
PollRunning(c) ==
    /\ c \in Calls
    /\ work[c].phase = "wait"
    /\ \E result \in Results : ~wait_returns(result)
    /\ UNCHANGED vars

\* mutant: wait_for_operation is called outside the try
PollRaise_escapes(c) ==
    /\ c \in Calls
    /\ work[c].phase = "wait"
    /\ work' = [work EXCEPT ![c].phase = "raised", ![c].errs = Append(@, "wait"),
                                ![c].stuck = FALSE]
    /\ UNCHANGED <<inputVars, mainVars, down>>

PollRaise(c) ==
    /\ c \in Calls
    /\ work[c].phase = "wait"
    /\ work' = [work EXCEPT ![c].phase = "down", ![c].errs = Append(@, "wait"),
                                ![c].stuck = FALSE]
    /\ UNCHANGED <<inputVars, mainVars, down>>

\* down_nodes, lines 227-235, called at line 223: "scontrol show hostlist"
\* runs with check=True and may raise; the update then sets the nodes down
down_nodes(c, node_list, reason) ==
    \/ /\ work' = [work EXCEPT ![c].phase = "done",
                                ![c].downs = Append(@, [nodes |-> node_list, reason |-> reason])]
       /\ down' = down \cup {<<n, reason>> : n \in Range(node_list)}
    \/ /\ work' = [work EXCEPT ![c].phase = "raised", ![c].errs = Append(@, "down"),
                                ![c].downs = Append(@, [nodes |-> node_list, reason |-> reason])]
       /\ UNCHANGED down

\* mutant: the except clause puts the chunk back in the queue for a retry
Except_requeues(c) ==
    /\ c \in Calls
    /\ work[c].phase = "down"
    /\ work' = [work EXCEPT ![c].phase = "queued"]
    /\ UNCHANGED <<inputVars, mainVars, down>>

\* mutant: the whole request is set down
Except_all(c) ==
    /\ c \in Calls
    /\ work[c].phase = "down"
    /\ down_nodes(c, hostnames, REASON)
    /\ UNCHANGED <<inputVars, mainVars>>

Except(c) ==
    /\ c \in Calls
    /\ work[c].phase = "down"
    /\ down_nodes(c, work[c].chunk.nodes, REASON)
    /\ UNCHANGED <<inputVars, mainVars>>

\* mutant: shutdown(wait=False)
pool_not_joined == TRUE

\* ThreadPoolExecutor.__exit__: shutdown(wait=True) joins every thread
pool_joined == \A c \in Calls : Finished(c)

\* mutant: the results of exe.map are read, which re-raises in main the
\* exception of a call
ExitPool_reraises ==
    /\ pc = "fanout"
    /\ Len(work) = Len(node_chunks)
    /\ pool_joined
    /\ pc' = IF \E c \in Calls : work[c].phase = "raised" THEN "raised" ELSE "done"
    /\ UNCHANGED <<nodes_by_pid, placement_groups, pg_i, pg_names, pg_ops,
                   pg_waited, policies>>
    /\ UNCHANGED <<inputVars, work, down>>

\* the with block ends, then line 335
ExitPool ==
    /\ pc = "fanout"
    /\ Len(work) = Len(node_chunks)
    /\ pool_joined
    /\ pc' = "done"
    /\ UNCHANGED <<nodes_by_pid, placement_groups, pg_i, pg_names, pg_ops,
                   pg_waited, policies>>
    /\ UNCHANGED <<inputVars, work, down>>

Worker ==
    \E c \in Calls :
        \/ Create(c)
        \/ PollDone(c)
        \/ PollRunning(c)
        \/ PollRaise(c)
        \/ Except(c)

Next ==
    \/ Classify
    \/ PgInsert
    \/ PgPollDone
    \/ PgPollRunning
    \/ PgPollRaise
    \/ Submit
    \/ Worker
    \/ ExitPool

Spec == Init /\ [][Next]_vars

(***************************************************************************)
(* The same program under fair scheduling, on the node lists of at most    *)
(* MaxFairNodes nodes whose pids all have a definition.  main and the      *)
(* threads of the pool keep running: a step of main or of a call that can  *)
(* be taken is eventually taken.  A provider call returns or raises;       *)
(* nothing obliges it to raise, and an operation that is not stuck         *)
(* eventually reports DONE.                                                *)
(***************************************************************************)
MaxFairNodes == PLACEMENT_MAX_CNT + 2

FairInit ==
    /\ Init
    /\ Len(hostnames) <= MaxFairNodes
    /\ KeysOf(hostnames) \subseteq DOMAIN instance_defs

Progress ==
    \/ Classify
    \/ PgInsert
    \/ PgPollDone
    \/ Submit
    \/ ExitPool
    \/ \E c \in Calls : Create(c) \/ PollDone(c) \/ Except(c)

FairSpec == FairInit /\ [][Next]_vars /\ WF_vars(Progress)

(***************************************************************************)
(* What the claims speak of.                                               *)
(***************************************************************************)
ChunkNodes(c) == work[c].chunk.nodes

ChunkPid(c) == get_pid(ChunkNodes(c)[1])

HasPg(c) == "pg" \in DOMAIN work[c].chunk

\* the nodes of the calls c..Len(work) whose chunk is of pid k, in order
RECURSIVE DispatchedFrom(_, _)
DispatchedFrom(c, k) ==
    IF c > Len(work) THEN <<>>
    ELSE (IF ChunkPid(c) = k THEN ChunkNodes(c) ELSE <<>>) \o DispatchedFrom(c + 1, k)

Dispatched(k) == DispatchedFrom(1, k)

\* the nodes of pid k in the order scontrol listed them
Requested(k) == SelectSeq(hostnames, LAMBDA x : get_pid(x) = k)

RetainedPids == {nodes_by_pid[r][1] : r \in 1..Len(nodes_by_pid)}

FirstError(c) == IF work[c].errs = <<>> THEN "none" ELSE Head(work[c].errs)

DownCall(c) == [nodes |-> ChunkNodes(c), reason |-> REASON]

(***************************************************************************)
(* C1: when main has run to its end, the chunks handed to the pool         *)
(* partition every pid group that classification retained: no chunk is     *)
(* empty, a chunk holds nodes of one retained pid, two chunks share no     *)
(* node, and the chunks of a pid, concatenated in the order they were      *)
(* emitted, are the nodes of that pid in the order of the input.           *)
(***************************************************************************)
C1_ChunksPartitionGroups ==
    pc = "done" =>
        /\ \A c \in Calls :
              /\ ChunkNodes(c) # <<>>
              /\ ChunkPid(c) \in RetainedPids
              /\ \A i \in 1..Len(ChunkNodes(c)) : get_pid(ChunkNodes(c)[i]) = ChunkPid(c)
        /\ \A c1, c2 \in Calls :
              c1 # c2 => Range(ChunkNodes(c1)) \cap Range(ChunkNodes(c2)) = {}
        /\ \A k \in RetainedPids : Dispatched(k) = Requested(k)

C1_Witness ==
    /\ pc = "done"
    /\ Cardinality(RetainedPids) = 2
    /\ hostnames # sorted_by_pid(hostnames)
    /\ \E c1, c2 \in Calls : c1 # c2 /\ ChunkPid(c1) = ChunkPid(c2)

(***************************************************************************)
(* C2: when create_instance raises for a chunk, down_nodes is called once  *)
(* for it, with the nodes of the chunk and the fixed reason; a node is set *)
(* down only if its own chunk failed; and when main ends every other call  *)
(* has made its bulk request, those that met no exception having returned  *)
(* without a down_nodes call.                                              *)
(***************************************************************************)
C2_CreateFailureIsolated ==
    /\ \A c \in Calls :
          FirstError(c) = "create" =>
              /\ work[c].bulk = 1
              /\ work[c].phase \in {"down", "done", "raised"}
              /\ work[c].downs = IF Finished(c) THEN <<DownCall(c)>> ELSE <<>>
    /\ down = UNION {Range(ChunkNodes(c)) \X {REASON} :
                        c \in {b \in Calls : /\ FirstError(b) \in {"create", "wait"}
                                             /\ work[b].phase = "done"
                                             /\ work[b].downs # <<>>}}
    /\ pc = "done" =>
          \A c \in Calls :
              /\ FirstError(c) # "KeyError" => work[c].bulk = 1
              /\ FirstError(c) = "none" => work[c].phase = "done" /\ work[c].downs = <<>>

C2_Witness ==
    /\ pc = "done"
    /\ \E c1, c2 \in Calls :
          /\ FirstError(c1) = "create"
          /\ work[c1].phase = "done"
          /\ FirstError(c2) = "none"
          /\ Range(ChunkNodes(c1)) = {d[1] : d \in down}

(***************************************************************************)
(* C3: a chunk handed to the pool has at most 1000 nodes, and at most      *)
(* PLACEMENT_MAX_CNT = 22 when it names a placement group.                 *)
(***************************************************************************)
C3_ChunkSizeBounds ==
    \A c \in Calls :
        /\ Len(ChunkNodes(c)) <= 1000
        /\ HasPg(c) => Len(ChunkNodes(c)) <= 22

C3_Witness ==
    \E c1, c2 \in Calls :
        /\ HasPg(c1) /\ Len(ChunkNodes(c1)) = 22
        /\ HasPg(c2) /\ Len(ChunkNodes(c2)) < 22

(***************************************************************************)
(* C4: create_placement_groups called for n nodes has, when it returns,    *)
(* made ceil(n/22) inserts, each with a vmCount in 1..22, all of them 22   *)
(* but possibly the last, summing to n; it returns the names of the groups *)
(* in the order of their creation, and these are distinct.                 *)
(***************************************************************************)
RECURSIVE SumVmCount(_)
SumVmCount(ps) == IF ps = <<>> THEN 0 ELSE Head(ps).vmCount + SumVmCount(Tail(ps))

C4_PlacementGroupSizes ==
    placement_groups # None =>
        LET n == Len(hostnames)
        IN  /\ Len(policies) = (n + 21) \div 22
            /\ \A i \in 1..Len(policies) :
                  /\ policies[i].vmCount \in 1..22
                  /\ i < Len(policies) => policies[i].vmCount = 22
            /\ SumVmCount(policies) = n
            /\ placement_groups = [i \in 1..Len(policies) |-> policies[i].name]
            /\ \A i, j \in 1..Len(policies) :
                  i # j => policies[i].name # policies[j].name

C4_Witness ==
    /\ placement_groups # None
    /\ Len(policies) = 3
    /\ policies[3].vmCount < 22

(***************************************************************************)
(* C5, as stated: with a job id, when the pid of the first node of the     *)
(* input list has a definition that is not exclusive, main does nothing:   *)
(* no chunk is handed to the pool, no placement group is created, no node  *)
(* is set down and main does not reach its end of line 335.                *)
(***************************************************************************)
NoOp ==
    /\ work = <<>>
    /\ pg_names = <<>>
    /\ policies = <<>>
    /\ down = {}
    /\ pc # "done"

IsPrologPid(k) ==
    /\ arg_job_id # 0
    /\ k \in DOMAIN instance_defs
    /\ ~instance_defs[k].exclusive

C5_FirstInputNodeDecides == IsPrologPid(get_pid(hostnames[1])) => NoOp

(***************************************************************************)
(* C5, amended: the pid that decides is the least pid of the list, the pid *)
(* of the first node after the sort of line 289.  With a job id, when that *)
(* pid has a definition that is not exclusive, main returns at line 295    *)
(* and nothing is dispatched, created or set down.                         *)
(***************************************************************************)
LeastPid == CHOOSE k \in KeysOf(hostnames) : \A k2 \in KeysOf(hostnames) : k <= k2

C5_LeastPidDecides ==
    IsPrologPid(LeastPid) => NoOp /\ pc \in {"start", "returned"}

C5_Witness ==
    /\ pc = "returned"
    /\ get_pid(hostnames[1]) # LeastPid
    /\ get_pid(hostnames[1]) \in DOMAIN instance_defs
    /\ instance_defs[get_pid(hostnames[1])].exclusive

(***************************************************************************)
(* C6, as stated: without a job id no chunk holds a node of an exclusive   *)
(* pid, and when main has ended the nodes of every pid that is not         *)
(* exclusive have been dispatched, in the chunks they would have had       *)
(* without the exclusive pids in the list: in the order of the input, in   *)
(* chunks of 1000 but for the last, without placement group.               *)
(***************************************************************************)
Ended == pc \in {"done", "raised", "returned"}

CallsOfPid(k) == {c \in Calls : ChunkPid(c) = k}

PlainChunksOf(k) ==
    /\ Dispatched(k) = Requested(k)
    /\ \A c \in CallsOfPid(k) :
          /\ ~HasPg(c)
          /\ ChunkNodes(c) # <<>>
          /\ (\E b \in CallsOfPid(k) : b > c) => Len(ChunkNodes(c)) = 1000

NoExclusiveDispatched ==
    \A c \in Calls :
        \A i \in 1..Len(ChunkNodes(c)) :
            LET k == get_pid(ChunkNodes(c)[i])
            IN  k \in DOMAIN instance_defs /\ ~instance_defs[k].exclusive

C6_ExclusiveDroppedOthersKept ==
    arg_job_id = 0 =>
        /\ NoExclusiveDispatched
        /\ Ended =>
              \A k \in KeysOf(hostnames) :
                  (k \in DOMAIN instance_defs /\ ~instance_defs[k].exclusive)
                      => PlainChunksOf(k)

(***************************************************************************)
(* C6, amended: the same, provided every pid of the list has an instance   *)
(* definition (line 302 raises KeyError otherwise, and nothing at all is   *)
(* dispatched); main then runs to its end.                                 *)
(***************************************************************************)
C6_ExclusiveDroppedWhenDefined ==
    (arg_job_id = 0 /\ KeysOf(hostnames) \subseteq DOMAIN instance_defs) =>
        /\ NoExclusiveDispatched
        /\ pc \in {"start", "fanout", "done"}
        /\ pc = "done" =>
              \A k \in KeysOf(hostnames) :
                  IF instance_defs[k].exclusive
                  THEN CallsOfPid(k) = {}
                  ELSE PlainChunksOf(k)

C6_Witness ==
    /\ pc = "done"
    /\ arg_job_id = 0
    /\ \E k1, k2 \in KeysOf(hostnames) :
          /\ instance_defs[k1].exclusive
          /\ ~instance_defs[k2].exclusive
          /\ Cardinality(CallsOfPid(k2)) = 2

(***************************************************************************)
(* C7: an exception raised by a poll of wait_for_operation is caught in    *)
(* add_instances: down_nodes is then called once, with the nodes of the    *)
(* chunk and the fixed reason, the chunk has made one bulk request and     *)
(* makes no other, and the call ends with an exception only if down_nodes  *)
(* itself raised.  When main ends, the calls that met no exception have    *)
(* returned without a down_nodes call.                                     *)
(***************************************************************************)
C7_WaitFailureReconciled ==
    /\ \A c \in Calls :
          FirstError(c) = "wait" =>
              /\ work[c].bulk = 1
              /\ work[c].phase \in {"down", "done", "raised"}
              /\ work[c].downs = IF Finished(c) THEN <<DownCall(c)>> ELSE <<>>
              /\ work[c].phase = "raised" => work[c].errs = <<"wait", "down">>
              /\ work[c].phase = "done" =>
                    /\ work[c].errs = <<"wait">>
                    /\ Range(ChunkNodes(c)) \X {REASON} \subseteq down
    /\ pc = "done" =>
          \A c \in Calls :
              FirstError(c) = "none" =>
                  work[c].phase = "done" /\ work[c].bulk = 1 /\ work[c].downs = <<>>

C7_Witness ==
    /\ pc = "done"
    /\ \E c1, c2 \in Calls :
          /\ FirstError(c1) = "wait"
          /\ work[c1].phase = "done"
          /\ FirstError(c2) = "none"
          /\ Range(ChunkNodes(c1)) = {d[1] : d \in down}

(***************************************************************************)
(* C8: once a chunk has been handed to the pool, every placement group has *)
(* been inserted and its operation waited for to DONE, the groups that the *)
(* chunks name are among them, and from the start of the fan-out on the    *)
(* placement groups do not change.                                         *)
(***************************************************************************)
PolicyNames == [i \in 1..Len(policies) |-> policies[i].name]

GroupsComplete ==
    /\ pc \in {"fanout", "done"}
    /\ Len(pg_ops) = Len(policies)
    /\ pg_waited = Len(pg_ops)
    /\ placement_groups = PolicyNames
    /\ \A c \in Calls : HasPg(c) => work[c].chunk.pg \in Range(PolicyNames)

GroupsFrozen ==
    pc \in {"fanout", "done"} =>
        /\ policies' = policies
        /\ pg_ops' = pg_ops
        /\ pg_waited' = pg_waited
        /\ placement_groups' = placement_groups

C8_GroupsBeforeFanout ==
    /\ [](work # <<>> => GroupsComplete)
    /\ [][GroupsFrozen]_vars

C8_Witness ==
    /\ Len(policies) >= 2
    /\ \E c \in Calls : HasPg(c) /\ work[c].bulk = 1 /\ work[c].chunk.pg = policies[2].name

(***************************************************************************)
(* C9: when main reaches line 335 every chunk has been handed to the pool  *)
(* and every call of add_instances has ended, none left queued, waiting or *)
(* about to call down_nodes, and none skipped: each has made its bulk      *)
(* request, or failed on the lookup of its instance definition.            *)
(***************************************************************************)
C9_DoneAfterAllCalls ==
    pc = "done" =>
        /\ Len(work) = Len(node_chunks)
        /\ \A c \in Calls :
              /\ work[c].phase \in {"done", "raised"}
              /\ work[c].bulk = 1 \/ FirstError(c) = "KeyError"

C9_Witness ==
    /\ pc = "done"
    /\ Len(work) > PoolSize
    /\ \E c \in Calls : FirstError(c) = "wait"
    /\ \E c \in Calls : FirstError(c) = "none"

(***************************************************************************)
(* C10, as stated: operations that never report DONE, however many, block  *)
(* only the threads that poll them and never the calls behind them.  So    *)
(* whenever a call is queued, it can be started now, or some thread is in  *)
(* a call whose operation is not stuck and can take the step that ends its *)
(* poll loop or its down_nodes, after which the thread is free.            *)
(***************************************************************************)
Queued(c) == c \in Calls /\ work[c].phase = "queued"

Stuck(c) == c \in Calls /\ work[c].phase = "wait" /\ work[c].stuck

Settled(c) == c \in Calls /\ Finished(c)

NumStuck == Cardinality({c \in Calls : Stuck(c)})

\* the call the pool starts next
HeadQueued(c) == Queued(c) /\ \A b \in 1..(c - 1) : ~Queued(b)

CanProceed(c) ==
    \/ ENABLED Create(c)
    \/ \E b \in Calls : ~Stuck(b) /\ ENABLED (PollDone(b) \/ Except(b))

C10_StuckNeverStarves == \A c \in Calls : HeadQueued(c) => CanProceed(c)

(***************************************************************************)
(* C10, amended: the same as long as fewer operations are stuck than the   *)
(* pool has threads.  (With a stuck operation in every thread the queued   *)
(* calls are not started.)                                                 *)
(***************************************************************************)
C10_StuckBelowPoolSize ==
    NumStuck < PoolSize => \A c \in Calls : HeadQueued(c) => CanProceed(c)

C10_Witness ==
    /\ Stuck(1)
    /\ Settled(2)
    /\ Settled(3)

(***************************************************************************)
(* C11: when some pid of the node list has no instance definition, the     *)
(* invocation aborts before any chunk executes: no call of add_instances   *)
(* makes a bulk request, with or without a job id and wherever the pid     *)
(* without definition stands in the list.                                  *)
(***************************************************************************)
UndefinedPids == KeysOf(hostnames) \ DOMAIN instance_defs

C11_UndefinedPidAbortsAll ==
    UndefinedPids # {} => \A c \in Calls : work[c].bulk = 0

(***************************************************************************)
(* C12: a placement-group insert or wait that fails inside                 *)
(* create_placement_groups ends the invocation during planning: no chunk   *)
(* is dispatched, no bulk request is made for any node and down_nodes is   *)
(* never called, so no node is set down.                                   *)
(***************************************************************************)
PgInsertFailed == Len(policies) < Len(pg_names)

PgWaitFailed ==
    pc = "raised" /\ pg_names # <<>> /\ Len(policies) = Len(pg_names)

C12_PlacementFailureIsFatal ==
    (PgInsertFailed \/ PgWaitFailed) =>
        /\ pc = "raised"
        /\ placement_groups = None
        /\ work = <<>>
        /\ down = {}

\* the second insert has failed, or the wait for the second operation has
C12_Witness ==
    /\ pc = "raised"
    /\ \/ PgInsertFailed /\ Len(policies) = 1
       \/ PgWaitFailed /\ Len(pg_ops) = 2 /\ pg_waited = 1

(***************************************************************************)
(* C13: once the fan-out has started main ends normally whatever calls     *)
(* fail.  An exception raised in a call (by the submission, by the wait or *)
(* by down_nodes itself) never leaves main: from the fan-out main goes     *)
(* only to its normal end, which it can reach as soon as every call has    *)
(* ended, however it ended.  A call that failed does not stop another: the *)
(* next queued call can start once the others have ended.  A failure shows *)
(* only in the nodes set down.                                             *)
(***************************************************************************)
Failed(c) == c \in Calls /\ work[c].errs # <<>>

MainEndsNormally == pc = "fanout" => pc' \in {"fanout", "done"}

AllCallsEnded ==
    /\ pc = "fanout"
    /\ Len(work) = Len(node_chunks)
    /\ \A c \in Calls : Finished(c)

FailureFreesThread ==
    \A c \in Calls :
        (HeadQueued(c) /\ pc = "fanout" /\ \A b \in Calls \ {c} : Failed(b) /\ Finished(b))
            => ENABLED Create(c)

C13_FailuresStayInCalls ==
    /\ [][MainEndsNormally]_vars
    /\ [](AllCallsEnded => ENABLED ExitPool)
    /\ []FailureFreesThread
    /\ [](pc = "raised" => work = <<>>)

\* main has ended normally with a call whose exception stayed in its future,
\* a call that set its nodes down and a call that succeeded
C13_Witness ==
    /\ pc = "done"
    /\ \E c \in Calls : work[c].phase = "raised"
    /\ \E c \in Calls : Failed(c) /\ work[c].phase = "done"
    /\ \E c \in Calls : ~Failed(c)

(***************************************************************************)
(* C14: the 'scheduling' value of a request is decided by the branches of  *)
(* create_instance in the precedence placement > accelerator >             *)
(* preemptible: with a placement group attached it is the placement value  *)
(* and not the preemptible one.                                            *)
(***************************************************************************)
Requesting(c) == c \in Calls /\ work[c].bulk > 0

DefOf(c) == instance_defs[ChunkPid(c)]

PlacementFirst(c) ==
    IF HasPg(c) THEN PlacementScheduling
    ELSE IF DefOf(c).gpu_type # None THEN AcceleratorScheduling
    ELSE IF DefOf(c).preemptible_bursting THEN PreemptibleScheduling
    ELSE NoScheduling

C14_PlacementSchedulingFirst ==
    \A c \in Calls : Requesting(c) => work[c].body.scheduling = PlacementFirst(c)

(***************************************************************************)
(* C14, as the code has it: the precedence is preemptible > accelerator >  *)
(* placement.  The value is the preemptible one whenever                   *)
(* preemptible_bursting is set, else the accelerator one whenever gpu_type *)
(* is set, else the placement one when a group is attached, else the key   *)
(* is absent; the reference to the group is kept in every case.            *)
(***************************************************************************)
PreemptibleFirst(c) ==
    IF DefOf(c).preemptible_bursting THEN PreemptibleScheduling
    ELSE IF DefOf(c).gpu_type # None THEN AcceleratorScheduling
    ELSE IF HasPg(c) THEN PlacementScheduling
    ELSE NoScheduling

C14_PreemptibleSchedulingFirst ==
    \A c \in Calls :
        Requesting(c) =>
            /\ work[c].body.scheduling = PreemptibleFirst(c)
            /\ work[c].body.resourcePolicies =
                   IF HasPg(c) THEN <<work[c].chunk.pg>> ELSE <<>>

\* a request with a placement group, an accelerator and preemptible bursting
C14_Witness ==
    \E c \in Calls :
        /\ Requesting(c)
        /\ HasPg(c)
        /\ DefOf(c).gpu_type # None
        /\ DefOf(c).preemptible_bursting
        /\ <<"preemptible", "True">> \in work[c].body.scheduling

(***************************************************************************)
(* C15: with placement grouping active the names of the placement groups   *)
(* are aligned one to one with the chunks: the k-th chunk of a node group  *)
(* references the k-th group created, no two chunks of the invocation      *)
(* reference the same group, also when the node list has more than one     *)
(* pid, and once every chunk is dispatched every group created is          *)
(* referenced by exactly one chunk.                                        *)
(***************************************************************************)
PgOf(c) == work[c].chunk.pg

\* the position of call c among the calls of its own pid
IndexInGroup(c) == Cardinality({b \in CallsOfPid(ChunkPid(c)) : b <= c})

Referencing(name) == {c \in Calls : HasPg(c) /\ PgOf(c) = name}

C15_GroupsAlignedWithChunks ==
    Truthy(placement_groups) =>
        /\ \A c \in Calls : HasPg(c) /\ PgOf(c) = placement_groups[IndexInGroup(c)]
        /\ \A c1, c2 \in Calls : c1 # c2 => PgOf(c1) # PgOf(c2)
        /\ pc = "done" =>
               \A i \in 1..Len(policies) :
                   Cardinality(Referencing(policies[i].name)) = 1

(***************************************************************************)
(* C16: the nodes of all the chunks that reference a placement group never *)
(* number more than the vmCount the group was created with, and so never   *)
(* more than 22; with a single pid they number exactly vmCount once every  *)
(* chunk is dispatched.                                                    *)
(***************************************************************************)
RECURSIVE HostedFrom(_, _)
HostedFrom(c, name) ==
    IF c > Len(work) THEN 0
    ELSE (IF HasPg(c) /\ PgOf(c) = name THEN Len(ChunkNodes(c)) ELSE 0)
         + HostedFrom(c + 1, name)

Hosted(name) == HostedFrom(1, name)

C16_GroupCapacityRespected ==
    \A i \in 1..Len(policies) :
        /\ Hosted(policies[i].name) <= policies[i].vmCount
        /\ Hosted(policies[i].name) <= PLACEMENT_MAX_CNT
        /\ (pc = "done" /\ Cardinality(KeysOf(hostnames)) = 1)
               => Hosted(policies[i].name) = policies[i].vmCount

(***************************************************************************)
(* C17: a chunk carries a reference to a placement group only when its own *)
(* pid group meets the four conditions: there is a job id, the definition  *)
(* of the pid has enable_placement, its machine family is c2, and the pid  *)
(* group has more than one node.                                           *)
(***************************************************************************)
OwnGroupWantsPlacement(k) ==
    /\ arg_job_id # 0
    /\ k \in DOMAIN instance_defs
    /\ instance_defs[k].enable_placement
    /\ machine_family(instance_defs[k]) = "c2"
    /\ Len(Requested(k)) > 1

C17_PlacementPerPidGroup ==
    \A c \in Calls : HasPg(c) => OwnGroupWantsPlacement(ChunkPid(c))

(***************************************************************************)
(* C18: in every chunk the events come in the order submission, waiting    *)
(* and, only after a failure, reconciliation, and nothing is retried: a    *)
(* call makes at most one bulk request and at most one down_nodes call,    *)
(* it waits only once its submission has returned an operation, and a      *)
(* call that failed never goes back to the queue.                          *)
(***************************************************************************)
PhaseRank(ph) ==
    CASE ph = "queued" -> 0
      [] ph = "wait" -> 1
      [] ph = "down" -> 2
      [] ph \in {"done", "raised"} -> 3

EventsInOrder(c) ==
    /\ work[c].bulk <= 1
    /\ Len(work[c].downs) <= 1
    /\ work[c].phase = "queued" =>
           work[c].bulk = 0 /\ work[c].errs = <<>> /\ work[c].downs = <<>>
    /\ work[c].phase = "wait" =>
           work[c].bulk = 1 /\ work[c].errs = <<>> /\ work[c].downs = <<>>
    /\ work[c].phase = "down" =>
           work[c].bulk = 1 /\ Len(work[c].errs) = 1 /\ work[c].downs = <<>>
    /\ work[c].downs # <<>> =>
           work[c].bulk = 1 /\ Head(work[c].errs) \in {"create", "wait"}
    /\ work[c].result # NoResult => work[c].bulk = 1

NeverBack(c) ==
    /\ PhaseRank(work'[c].phase) >= PhaseRank(work[c].phase)
    /\ work'[c].phase # work[c].phase =>
           PhaseRank(work'[c].phase) > PhaseRank(work[c].phase)
    /\ work'[c].bulk >= work[c].bulk
    /\ Len(work'[c].downs) >= Len(work[c].downs)
    /\ work'[c].chunk = work[c].chunk

C18_ChunkEventsOrdered ==
    /\ [](\A c \in Calls : EventsInOrder(c))
    /\ [][\A c \in Calls : NeverBack(c)]_vars

\* a call that submitted, waited, failed in the wait and set its nodes down
C18_Witness ==
    \E c \in Calls :
        /\ work[c].phase = "done"
        /\ work[c].bulk = 1
        /\ work[c].errs = <<"wait">>
        /\ work[c].downs = <<DownCall(c)>>

(***************************************************************************)
(* C19: wait_for_operation returns only on a poll that reports the status  *)
(* DONE, and a chunk whose operation is DONE with an error inside the      *)
(* result counts as a success: the call returns, down_nodes is not called  *)
(* for it and none of its nodes is set down.                               *)
(***************************************************************************)
Returned(c) == c \in Calls /\ work[c].result # NoResult

DoneWithError(c) == Returned(c) /\ work[c].result.error

Succeeded(c) ==
    /\ work[c].phase = "done"
    /\ work[c].errs = <<>>
    /\ work[c].downs = <<>>
    /\ \A n \in Range(ChunkNodes(c)) : <<n, REASON>> \notin down

C19_DoneWithErrorIsSuccess ==
    \A c \in Calls :
        /\ Returned(c) => work[c].result.status = "DONE"
        /\ (work[c].phase = "done" /\ work[c].errs = <<>>) => Returned(c)
        /\ DoneWithError(c) => Succeeded(c)

\* main has ended with a call whose operation failed and a call that set
\* its nodes down
C19_Witness ==
    /\ pc = "done"
    /\ \E c \in Calls : DoneWithError(c) /\ Succeeded(c)
    /\ down # {}

(***************************************************************************)
(* C20: under fair scheduling, when every provider call returns or raises  *)
(* and every operation submitted eventually reports DONE, every chunk      *)
(* dispatched eventually finishes and main eventually ends.  With no       *)
(* timeout, an operation that never reports DONE keeps its call in         *)
(* wait_for_operation for as long as no poll raises, and main does not     *)
(* end meanwhile.                                                          *)
(***************************************************************************)
SomeStuck == \E c \in Calls : work[c].stuck

MainEnded ==
    /\ Ended
    /\ Len(work) = Len(node_chunks) \/ pc # "done"
    /\ \A c \in Calls : Finished(c)

PollsForever(c) ==
    Stuck(c) =>
        \/ Stuck(c)'
        \/ work'[c].phase = "down" /\ work'[c].errs = <<"wait">>

C20_EndsUnlessStuck ==
    /\ <>(SomeStuck \/ MainEnded)
    /\ [][\A c \in Calls : PollsForever(c)]_vars
    /\ []((\E c \in Calls : Stuck(c)) => pc = "fanout" /\ ~ENABLED ExitPool)

\* main has ended after three calls that all finished
C20_Witness ==
    /\ pc = "done"
    /\ Len(work) >= 3
    /\ \A c \in Calls : Finished(c)

=============================================================================
